---- MODULE Spec2Model ----

(***************************************************************************)
(* A model of copyright_batcher.py: date resolution (extract_date), the    *)
(* per-image worker (process_image / resize_image), the batch pipeline     *)
(* (process_batch) and the driver (process_images).                        *)
(*                                                                         *)
(* Images are natural numbers; their numeric order stands for the          *)
(* lexicographic order of the file names.  The output directory is empty   *)
(* when the run starts.  openpyxl's cell assignment, PIL's thumbnail/save  *)
(* and shutil.copy are the external steps: each is one atomic step whose   *)
(* outcome (success or an exception class) is chosen by the environment.   *)
(***************************************************************************)
EXTENDS Integers, Sequences, FiniteSets, TLC

(***************************************************************************)
(* Bounds of the model.                                                    *)
(***************************************************************************)
MaxImages == 4
MaxTagsPresent == 2
MaxImagesLive == 2

(***************************************************************************)
(* Program constants (lines 29-32), scaled down so that one run has        *)
(* several batches and one batch several sub-batches: the source has       *)
(* BATCH_SIZE = 750 and SUB_BATCH_SIZE = 150.                              *)
(***************************************************************************)
BATCH_SIZE == 3
SUB_BATCH_SIZE == 2
FIRST_DATA_ROW == 11
DEFAULT_DATE == [month |-> 8, year |-> 2024]

RAISE == [month |-> 0, year |-> 0]

(***************************************************************************)
(* Dates.  A datetime is its local calendar fields plus an optional UTC    *)
(* offset in minutes; seconds are 0 in every sample value.                 *)
(***************************************************************************)
IsLeap(y) == (y % 4 = 0) /\ ((y % 100 # 0) \/ (y % 400 = 0))

DaysBeforeMonth == <<0, 31, 59, 90, 120, 151, 181, 212, 243, 273, 304, 334>>

\* datetime.toordinal(): days since 0001-01-01, proleptic Gregorian.
Ordinal(y, m, d) ==
    LET p == y - 1
    IN  p * 365 + (p \div 4) - (p \div 100) + (p \div 400)
        + DaysBeforeMonth[m] + (IF m > 2 /\ IsLeap(y) THEN 1 ELSE 0) + d

\* The absolute instant of an aware datetime, in minutes: what the
\* comparison of two aware datetimes (max(dates), line 120) compares.
Instant(p) ==
    (Ordinal(p.dt.year, p.dt.month, p.dt.day) * 24 + p.dt.hour) * 60
        + p.dt.minute - p.off

\* strftime("%m/%Y") (line 122): the local month and year of the datetime,
\* not those of its UTC instant.
Strftime(p) == [month |-> p.dt.month, year |-> p.dt.year]

\* date_str.split("/")[1] (line 214).
YearOf(bucket) == bucket.year

Dt(y, m, d, h, mi) == [year |-> y, month |-> m, day |-> d, hour |-> h, minute |-> mi]

ZeroDt == Dt(1, 1, 1, 0, 0)

(***************************************************************************)
(* Tag values.  kind "absent": the tag is not in the record (get gives     *)
(* None); "empty": a falsy value ("" or 0); "nonstr": a truthy value that  *)
(* is no string (a JSON number or list); "text": a string no format        *)
(* matches; "date": a string written in format number `shape` of           *)
(* date_formats, with a fractional-seconds suffix after the seconds when   *)
(* frac (the UTC offset, if any, follows the fraction).                    *)
(***************************************************************************)
date_tags ==
    << "EXIF:DateTimeOriginal", "EXIF:CreateDate", "IPTC:DateCreated",
       "IPTC:DigitalCreationDate", "XMP:CreateDate", "XMP:DateCreated" >>

\* date_formats by index: 1 "%Y:%m:%d", 2 "%Y:%m:%d %H:%M:%S",
\* 3 "%Y:%m:%d %H:%M:%S%z", 4 "%Y-%m-%dT%H:%M:%S", 5 "%Y-%m-%dT%H:%M:%S%z".
date_formats == <<1, 2, 3, 4, 5>>

HasZone(shape) == shape \in {3, 5}

Plain(kind) == [kind |-> kind, shape |-> 0, dt |-> ZeroDt, off |-> 0, frac |-> FALSE]

Absent == Plain("absent")

DateStr(shape, dt, off, frac) ==
    [kind |-> "date", shape |-> shape, dt |-> dt, off |-> off, frac |-> frac]

\* date_str.split('.')[0] (line 108): everything from the first '.' on is
\* dropped, the UTC offset that follows a fraction included.
SplitDot(s) ==
    IF s.kind = "date" /\ s.frac
    THEN DateStr(IF s.shape = 3 THEN 2 ELSE IF s.shape = 5 THEN 4 ELSE s.shape,
                 s.dt, 0, FALSE)
    ELSE s

\* datetime.strptime(s, fmt) succeeds iff the whole string has the format's
\* shape; otherwise ValueError.
StrptimeOk(s, fmt) == s.kind = "date" /\ s.shape = fmt

\* The parsed datetime, with lines 110-111 applied: a naive datetime gets
\* tzinfo UTC (its fields unchanged); an aware one keeps its own offset.
Parsed(s) == [dt |-> s.dt, off |-> IF HasZone(s.shape) THEN s.off ELSE 0]

\* Lines 106-117 for one tag value: the datetime given by the first format
\* that parses, in order, as a one-element list; <<>> when none parses.
RECURSIVE TryFormats(_, _)
TryFormats(s, k) ==
    IF k > Len(date_formats) THEN <<>>
    ELSE IF StrptimeOk(s, date_formats[k]) THEN <<Parsed(s)>>
    ELSE TryFormats(s, k + 1)

\* max(dates) (line 120): the first of the maximal elements of the list.
RECURSIVE MaxDate(_, _, _)
MaxDate(dates, k, best) ==
    IF k > Len(dates) THEN best
    ELSE MaxDate(dates, k + 1,
                 IF Instant(dates[k]) > Instant(best) THEN dates[k] ELSE best)

\* Lines 103-117: the parsed dates in tag order.  raised: a truthy value
\* that is no string makes date_str.split raise AttributeError, which the
\* except ValueError of line 115 does not catch.
RECURSIVE CollectDates(_, _, _)
CollectDates(metadata, k, dates) ==
    IF k > Len(date_tags) THEN [raised |-> FALSE, dates |-> dates]
    ELSE LET date_str == metadata[date_tags[k]]
         IN  IF date_str.kind \in {"absent", "empty"}
             THEN CollectDates(metadata, k + 1, dates)
             ELSE IF date_str.kind = "nonstr"
             THEN [raised |-> TRUE, dates |-> dates]
             ELSE CollectDates(metadata, k + 1,
                               dates \o TryFormats(SplitDot(date_str), 1))

\* extract_date (lines 93-125): a bucket, or RAISE for an exception.
extract_date(metadata) ==
    LET r == CollectDates(metadata, 1, <<>>)
    IN  IF r.raised THEN RAISE
        ELSE IF r.dates # <<>> THEN Strftime(MaxDate(r.dates, 2, r.dates[1]))
        ELSE DEFAULT_DATE

(***************************************************************************)
(* Sample tag values and metadata records.                                 *)
(***************************************************************************)
SampleStrings ==
    { DateStr(1, Dt(2022, 12, 31, 0, 0), 0, FALSE),    \* "2022:12:31"
      DateStr(2, Dt(2022, 12, 31, 23, 30), 0, FALSE),  \* "2022:12:31 23:30:00"
      DateStr(3, Dt(2023, 1, 1, 0, 30), 60, FALSE),    \* "2023:01:01 00:30:00+01:00"
      DateStr(3, Dt(2023, 1, 1, 0, 30), 60, TRUE),     \* "2023:01:01 00:30:00.50+01:00"
      DateStr(2, Dt(2022, 5, 1, 10, 0), 0, FALSE),     \* "2022:05:01 10:00:00"
      DateStr(4, Dt(2022, 12, 31, 23, 30), 0, FALSE),  \* "2022-12-31T23:30:00"
      DateStr(4, Dt(2023, 1, 1, 0, 30), 0, TRUE),      \* "2023-01-01T00:30:00.5"
      DateStr(5, Dt(2023, 1, 1, 0, 30), 60, FALSE),    \* "2023-01-01T00:30:00+01:00"
      DateStr(3, Dt(2024, 3, 15, 12, 0), 0 - 60, FALSE) \* "2024:03:15 12:00:00-01:00"
    }

SampleValues == SampleStrings \cup {Plain("empty"), Plain("nonstr"), Plain("text")}

Tags == {date_tags[k] : k \in 1..Len(date_tags)}

EmptyRecord == [t \in Tags |-> Absent]

\* The records with at most MaxTagsPresent of the candidate tags present.
SampleRecords ==
    { m \in [Tags -> SampleValues \cup {Absent}] :
        Cardinality({t \in Tags : m[t] # Absent}) <= MaxTagsPresent }

(***************************************************************************)
(* The corpus of the pipeline runs.  A metadata document of an image is    *)
(* "unreadable" (no JSON file, a JSON error or an unexpected format: lines *)
(* 58-69 leave the image out of the metadata dict) or one of these records.*)
(***************************************************************************)
Rec2023 ==
    [EmptyRecord EXCEPT
        !["EXIF:DateTimeOriginal"] = DateStr(2, Dt(2022, 5, 1, 10, 0), 0, FALSE),
        !["XMP:CreateDate"] = DateStr(4, Dt(2023, 1, 1, 0, 30), 0, TRUE)]

Rec2024 ==
    [EmptyRecord EXCEPT
        !["EXIF:CreateDate"] = DateStr(3, Dt(2024, 3, 15, 12, 0), 0 - 60, FALSE)]

RecNonString == [EmptyRecord EXCEPT !["IPTC:DateCreated"] = Plain("nonstr")]

Unreadable == [EmptyRecord EXCEPT !["EXIF:DateTimeOriginal"] = Plain("unreadable")]

Documents == {Unreadable, Rec2023, Rec2024, RecNonString}

ResizeOutcomes == {"ok", "FileNotFoundError", "OSError"}

CopyOutcomes == {"ok", "FileNotFoundError", "OSError"}

VARIABLES
    pc,             \* where the main thread is
    listing,        \* the .jpg files of IMAGE_DIRECTORY_FOLDER, a set
    images,         \* process_images: the sorted list of images
    metadata,       \* the dict create_metadata_hdf5 returns
    gi,             \* the grouping loop: images grouped so far
    images_by_year, \* the dict of line 210: year -> list of images
    year_keys,      \* its keys in insertion order
    yi,             \* the loop of line 220: position in year_keys
    bi,             \* the loop of line 221: start i of the next window
    runs,           \* the process_batch calls made so far: <<year, number, images>>
    batch,          \* process_batch: its arguments [year, number, images]
    ws,             \* the worksheet: (row, col) -> cell value
    worker,         \* the futures of the batch: idx -> state
    batch_dir,      \* the resized files in the batch directory
    saves,          \* how many times wb.save ran in this process_batch call
    xlsx,           \* the saved manifest file
    sub_dirs,       \* sub_dirs[m]: the files copied into sub_batch_m, in order
    sk,             \* the loop of line 189: images of the sub-batch handled
    copy_missed,    \* the images logged at line 198 (copy raised FileNotFoundError)
    record,         \* date resolution alone: the metadata record
    resolved        \* date resolution alone: <<bucket>> once resolved

vars ==
    << pc, listing, images, metadata, gi, images_by_year, year_keys, yi, bi,
       runs, batch, ws, worker, batch_dir, saves, xlsx, sub_dirs, sk,
       copy_missed, record, resolved >>

drv == << listing, images, metadata, gi, images_by_year, year_keys, yi, bi >>

dateVars == << record, resolved >>

sub == << sub_dirs, sk, copy_missed >>

(***************************************************************************)
(* The worksheet.                                                          *)
(***************************************************************************)
IntCell(n) == [type |-> "int", num |-> n, date |-> RAISE]

NameCell(image) == [type |-> "name", num |-> image, date |-> RAISE]

DateCell(d) == [type |-> "date", num |-> 0, date |-> d]

StrCell == [type |-> "str", num |-> 0, date |-> RAISE]

\* load_workbook(TEMPLATE_PATH) (line 169): the header rows are filled (the
\* last header cell stands for them), the data rows are empty.
HeaderCell == <<FIRST_DATA_ROW - 1, 1>>

Template == [c \in {HeaderCell} |-> StrCell]

\* worksheet.cell(row, column).value = v
SetCell(sheet, row, col, v) ==
    [c \in DOMAIN sheet \cup {<<row, col>>} |->
        IF c = <<row, col>> THEN v ELSE sheet[c]]

\* Mutant of RowOf: the row is taken in completion order (the number of
\* workers that have returned) instead of from the index.
RowOfByCompletion(idx) ==
    FIRST_DATA_ROW + Cardinality({i \in DOMAIN worker : worker[i].st = "true"})

\* Mutant of RowOf: the rows wrap around after two, so the workers of
\* indices 0 and 2 are handed the same row.
RowOfWrapped(idx) == FIRST_DATA_ROW + (idx % 2)

\* The row process_image writes for index idx (lines 157-162).
RowOf(idx) == idx + FIRST_DATA_ROW

\* The value lines 157-162 give column col of the row of image at index idx.
CellValue(col, idx, image, metadata_date) ==
    CASE col = 1 -> IntCell(idx + 1)
      [] col \in {2, 3, 5} -> NameCell(image)
      [] col = 4 -> DateCell(metadata_date)
      [] OTHER -> StrCell

NumColumns == 6

(***************************************************************************)
(* Initial state: the source directory holds listing images.               *)
(***************************************************************************)
NoBatch == [year |-> 0, number |-> 0, images |-> <<>>]

Idle ==
    /\ images = <<>> /\ metadata = <<>> /\ gi = 0
    /\ images_by_year = <<>> /\ year_keys = <<>> /\ yi = 1 /\ bi = 0
    /\ runs = <<>> /\ batch = NoBatch /\ ws = Template /\ worker = <<>>
    /\ batch_dir = {} /\ saves = 0 /\ xlsx = <<>>
    /\ sub_dirs = <<>> /\ sk = 0 /\ copy_missed = {}

Init ==
    /\ pc = "start"
    /\ listing \in {1..n : n \in 0..MaxImages}
    /\ Idle
    /\ record = EmptyRecord /\ resolved = <<>>

Min(a, b) == IF a <= b THEN a ELSE b

\* images.sort() (line 205) of the listing.
RECURSIVE Sorted(_)
Sorted(S) ==
    IF S = {} THEN <<>>
    ELSE LET least == CHOOSE x \in S : \A y \in S : x <= y
         IN  <<least>> \o Sorted(S \ {least})

\* Mutant of MetaGet: an image without a metadata entry is given the record
\* of the corpus dated 2023 instead of the empty record.
MetaGetBorrowsRecord(image) ==
    IF image \in DOMAIN metadata THEN metadata[image] ELSE Rec2023

\* metadata.get(image.replace('.jpg', ''), {}) (lines 141, 212).
MetaGet(image) ==
    IF image \in DOMAIN metadata THEN metadata[image] ELSE EmptyRecord

(***************************************************************************)
(* process_images (lines 202-224).                                         *)
(***************************************************************************)
\* Lines 203-205.
ListImages ==
    /\ pc = "start"
    /\ images' = Sorted(listing)
    /\ pc' = "metadata"
    /\ UNCHANGED << listing, metadata, gi, images_by_year, year_keys, yi, bi,
                    runs, batch, ws, worker, batch_dir, saves, xlsx, sub, dateVars >>

\* Line 207, create_metadata_hdf5 (lines 51-72): a dict entry for every
\* image whose JSON document is read as a dict.
CreateMetadata ==
    /\ pc = "metadata"
    /\ \E docs \in [listing -> Documents] :
          metadata' = [i \in {x \in listing : docs[x] # Unreadable} |-> docs[i]]
    /\ pc' = "group"
    /\ UNCHANGED << listing, images, gi, images_by_year, year_keys, yi, bi,
                    runs, batch, ws, worker, batch_dir, saves, xlsx, sub, dateVars >>

\* Mutant of AppendToYear: a new year gets its empty list but the image that
\* created it is not appended.
AppendToYearDropsFirst(groups, year, image) ==
    [y \in DOMAIN groups \cup {year} |->
        IF y = year
        THEN (IF y \in DOMAIN groups THEN groups[y] \o <<image>> ELSE <<>>)
        ELSE groups[y]]

\* images_by_year[year].append(image), the key created at first use
\* (lines 215-217).
AppendToYear(groups, year, image) ==
    [y \in DOMAIN groups \cup {year} |->
        IF y = year
        THEN (IF y \in DOMAIN groups THEN groups[y] ELSE <<>>) \o <<image>>
        ELSE groups[y]]

\* Mutant of GroupImage: the record is taken out of the metadata dict
\* (pop instead of get) when the image is grouped.
GroupImagePopsRecord ==
    /\ pc = "group"
    /\ gi < Len(images)
    /\ LET image == images[gi + 1]
           date_str == extract_date(MetaGet(image))
           year == YearOf(date_str)
       IN  IF date_str = RAISE
           THEN /\ pc' = "aborted"
                /\ UNCHANGED << gi, images_by_year, year_keys, metadata >>
           ELSE /\ images_by_year' = AppendToYear(images_by_year, year, image)
                /\ year_keys' = IF year \in DOMAIN images_by_year THEN year_keys
                                ELSE Append(year_keys, year)
                /\ gi' = gi + 1
                /\ metadata' = [i \in DOMAIN metadata \ {image} |-> metadata[i]]
                /\ pc' = pc
    /\ UNCHANGED << listing, images, yi, bi, runs, batch, ws, worker,
                    batch_dir, saves, xlsx, sub, dateVars >>

\* One iteration of the loop of lines 211-217.  An exception of
\* extract_date is not caught here: it ends the run.
GroupImage ==
    /\ pc = "group"
    /\ gi < Len(images)
    /\ LET image == images[gi + 1]
           date_str == extract_date(MetaGet(image))
           year == YearOf(date_str)
       IN  IF date_str = RAISE
           THEN /\ pc' = "aborted"
                /\ UNCHANGED << gi, images_by_year, year_keys >>
           ELSE /\ images_by_year' = AppendToYear(images_by_year, year, image)
                /\ year_keys' = IF year \in DOMAIN images_by_year THEN year_keys
                                ELSE Append(year_keys, year)
                /\ gi' = gi + 1
                /\ pc' = pc
    /\ UNCHANGED << listing, images, metadata, yi, bi, runs, batch, ws, worker,
                    batch_dir, saves, xlsx, sub, dateVars >>

GroupDone ==
    /\ pc = "group"
    /\ gi = Len(images)
    /\ pc' = "dispatch"
    /\ UNCHANGED << drv, runs, batch, ws, worker, batch_dir, saves, xlsx,
                    sub, dateVars >>

Pending == [st |-> "pending", date |-> RAISE, cells |-> 0]

\* Mutant of Window: the slice ends one element early.
WindowEndsEarly(list, i, size) ==
    IF i + 1 >= Len(list) THEN <<>>
    ELSE SubSeq(list, i + 1, Min(i + size, Len(list)) - 1)

\* year_images[i:i + BATCH_SIZE] (line 222), i counted from 0.
Window(list, i, size) ==
    IF i >= Len(list) THEN <<>> ELSE SubSeq(list, i + 1, Min(i + size, Len(list)))

\* One iteration of the loop of line 221: lines 222-224 and the start of
\* process_batch (lines 166-173): a fresh batch directory and workbook, one
\* future submitted per image with its index.
StartBatch ==
    /\ pc = "dispatch"
    /\ yi <= Len(year_keys)
    /\ bi < Len(images_by_year[year_keys[yi]])
    /\ LET year == year_keys[yi]
           b == [year |-> year, number |-> (bi \div BATCH_SIZE) + 1,
                 images |-> Window(images_by_year[year], bi, BATCH_SIZE)]
       IN  /\ batch' = b
           /\ runs' = Append(runs, b)
           /\ worker' = [idx \in 0..(Len(b.images) - 1) |-> Pending]
    /\ ws' = Template
    /\ batch_dir' = {}
    /\ saves' = 0
    /\ xlsx' = <<>>
    /\ sub_dirs' = <<>>
    /\ sk' = 0
    /\ copy_missed' = {}
    /\ pc' = "workers"
    /\ UNCHANGED << drv, dateVars >>

\* The loop of line 220 moves to the next year.
NextYear ==
    /\ pc = "dispatch"
    /\ yi <= Len(year_keys)
    /\ bi >= Len(images_by_year[year_keys[yi]])
    /\ yi' = yi + 1
    /\ bi' = 0
    /\ UNCHANGED << pc, listing, images, metadata, gi, images_by_year,
                    year_keys, runs, batch, ws, worker, batch_dir, saves, xlsx,
                    sub, dateVars >>

Finish ==
    /\ pc = "dispatch"
    /\ yi > Len(year_keys)
    /\ pc' = "done"
    /\ UNCHANGED << drv, runs, batch, ws, worker, batch_dir, saves, xlsx,
                    sub, dateVars >>

(***************************************************************************)
(* process_image (lines 138-163), one worker per index of the batch.  The  *)
(* pool of ThreadPoolExecutor() has at least 5 threads, more than          *)
(* BATCH_SIZE here, so every future may run at once.                       *)
(***************************************************************************)
\* Mutant of WorkerStart: an exception of resize_image other than
\* FileNotFoundError is not contained in the future but ends the run.
WorkerStartAbortsBatch(idx) ==
    /\ worker[idx].st = "pending"
    /\ LET image == batch.images[idx + 1]
           metadata_date == extract_date(MetaGet(image))
       IN  IF metadata_date = RAISE
           THEN /\ worker' = [worker EXCEPT ![idx].st = "false"]
                /\ UNCHANGED << pc, batch_dir >>
           ELSE \E outcome \in ResizeOutcomes :
                  CASE outcome = "ok" ->
                         /\ batch_dir' = batch_dir \cup {image}
                         /\ worker' = [worker EXCEPT ![idx].st = "resized",
                                                     ![idx].date = metadata_date]
                         /\ UNCHANGED pc
                    [] outcome = "FileNotFoundError" ->
                         /\ worker' = [worker EXCEPT ![idx].st = "false"]
                         /\ UNCHANGED << pc, batch_dir >>
                    [] OTHER ->
                         /\ worker' = [worker EXCEPT ![idx].st = "raised"]
                         /\ pc' = "aborted"
                         /\ UNCHANGED batch_dir
    /\ UNCHANGED << drv, runs, batch, ws, saves, xlsx, sub, dateVars >>

\* Mutant of WorkerStart: the sequence number (column 1) is written before
\* the image is resized.
WorkerStartWritesFirst(idx) ==
    /\ worker[idx].st = "pending"
    /\ LET image == batch.images[idx + 1]
           metadata_date == extract_date(MetaGet(image))
       IN  IF metadata_date = RAISE
           THEN /\ worker' = [worker EXCEPT ![idx].st = "false"]
                /\ UNCHANGED << ws, batch_dir >>
           ELSE /\ ws' = SetCell(ws, RowOf(idx), 1, IntCell(idx + 1))
                /\ \E outcome \in ResizeOutcomes :
                      CASE outcome = "ok" ->
                             /\ batch_dir' = batch_dir \cup {image}
                             /\ worker' = [worker EXCEPT ![idx].st = "resized",
                                                         ![idx].date = metadata_date]
                        [] outcome = "FileNotFoundError" ->
                             /\ worker' = [worker EXCEPT ![idx].st = "false"]
                             /\ UNCHANGED batch_dir
                        [] OTHER ->
                             /\ worker' = [worker EXCEPT ![idx].st = "raised"]
                             /\ UNCHANGED batch_dir
    /\ UNCHANGED << pc, drv, runs, batch, saves, xlsx, sub, dateVars >>

\* Lines 139-155: date resolution, then resize_image (lines 127-136).  A
\* resize that fails leaves no file at the output path (Image.save removes
\* the file it created when the encoder fails).
WorkerStart(idx) ==
    /\ worker[idx].st = "pending"
    /\ LET image == batch.images[idx + 1]
           metadata_date == extract_date(MetaGet(image))
       IN  IF metadata_date = RAISE
           THEN /\ worker' = [worker EXCEPT ![idx].st = "false"]
                /\ UNCHANGED batch_dir
           ELSE \E outcome \in ResizeOutcomes :
                  CASE outcome = "ok" ->
                         /\ batch_dir' = batch_dir \cup {image}
                         /\ worker' = [worker EXCEPT ![idx].st = "resized",
                                                     ![idx].date = metadata_date]
                    [] outcome = "FileNotFoundError" ->
                         /\ worker' = [worker EXCEPT ![idx].st = "false"]
                         /\ UNCHANGED batch_dir
                    [] OTHER ->
                         /\ worker' = [worker EXCEPT ![idx].st = "raised"]
                         /\ UNCHANGED batch_dir
    /\ UNCHANGED << pc, drv, runs, batch, ws, saves, xlsx, sub, dateVars >>

\* Lines 157-163, one cell assignment at a time; return True after the last.
WorkerWrite(idx) ==
    /\ worker[idx].st = "resized"
    /\ LET col == worker[idx].cells + 1
       IN  /\ ws' = SetCell(ws, RowOf(idx), col,
                            CellValue(col, idx, batch.images[idx + 1], worker[idx].date))
           /\ worker' = [worker EXCEPT
                            ![idx].cells = col,
                            ![idx].st = IF col = NumColumns THEN "true" ELSE "resized"]
    /\ UNCHANGED << pc, drv, runs, batch, batch_dir, saves, xlsx, sub, dateVars >>

(***************************************************************************)
(* process_batch after the dispatch (lines 172-200).                       *)
(***************************************************************************)
\* Mutant of Finished: only a future that returned True counts as done, so
\* the main thread waits for ever after a failed image.
FinishedOnlyOnSuccess(w) == w.st = "true"

\* Mutant of Finished: a future counts as done as soon as it has started.
FinishedEarly(w) == w.st # "pending"

\* A future is done: process_image returned True or False, or raised.
Finished(w) == w.st \in {"true", "false", "raised"}

\* Mutant of SaveManifest: when a future returned False, the image is
\* submitted again instead of the manifest being saved.
SaveManifestRetriesFailed ==
    /\ pc = "workers"
    /\ \A idx \in DOMAIN worker : Finished(worker[idx])
    /\ IF \E idx \in DOMAIN worker : worker[idx].st = "false"
       THEN /\ worker' = [idx \in DOMAIN worker |->
                            IF worker[idx].st = "false" THEN Pending ELSE worker[idx]]
            /\ UNCHANGED << pc, saves, xlsx >>
       ELSE /\ xlsx' = <<ws>>
            /\ saves' = saves + 1
            /\ pc' = "subbatch"
            /\ UNCHANGED worker
    /\ UNCHANGED << drv, runs, batch, ws, batch_dir, sub, dateVars >>

\* Mutant of SaveManifest: the executor is not joined; the main thread goes
\* on to wb.save while futures are still running.
SaveManifestNoJoin ==
    /\ pc = "workers"
    /\ xlsx' = <<ws>>
    /\ saves' = saves + 1
    /\ pc' = "subbatch"
    /\ UNCHANGED << drv, runs, batch, ws, worker, batch_dir, sub, dateVars >>

\* Lines 172-183: the with block ends when every future is done (results
\* and exceptions are only logged, lines 174-180); then wb.save.
SaveManifest ==
    /\ pc = "workers"
    /\ \A idx \in DOMAIN worker : Finished(worker[idx])
    /\ xlsx' = <<ws>>
    /\ saves' = saves + 1
    /\ pc' = "subbatch"
    /\ UNCHANGED << drv, runs, batch, ws, worker, batch_dir, sub, dateVars >>

\* Mutant of SubBatchOf: the sub-batches are cut from the images whose
\* resized file exists instead of from the original list.
SubBatchOfResized(list, m) ==
    LET Exists(image) == image \in batch_dir
    IN  Window(SelectSeq(list, Exists), (m - 1) * SUB_BATCH_SIZE, SUB_BATCH_SIZE)

\* Mutant of SubBatchOf: the slice of a sub-batch is one element too long,
\* so consecutive sub-batches overlap.
SubBatchOfOverlapping(list, m) ==
    Window(list, (m - 1) * SUB_BATCH_SIZE, SUB_BATCH_SIZE + 1)

\* images[j:j + SUB_BATCH_SIZE] for sub-batch number m (lines 185-187).
SubBatchOf(list, m) == Window(list, (m - 1) * SUB_BATCH_SIZE, SUB_BATCH_SIZE)

CurrentSubBatchDone ==
    IF sub_dirs = <<>> THEN TRUE
    ELSE sk = Len(SubBatchOf(batch.images, Len(sub_dirs)))

\* Lines 185-188: the next sub-batch directory.
MakeSubDir ==
    /\ pc = "subbatch"
    /\ CurrentSubBatchDone
    /\ Len(sub_dirs) * SUB_BATCH_SIZE < Len(batch.images)
    /\ sub_dirs' = Append(sub_dirs, <<>>)
    /\ sk' = 0
    /\ UNCHANGED << pc, drv, runs, batch, ws, worker, batch_dir, saves, xlsx,
                    copy_missed, dateVars >>

\* Lines 189-198: one image of the current sub-batch.  Only
\* FileNotFoundError is caught around shutil.copy.
CopyImage ==
    /\ pc = "subbatch"
    /\ sub_dirs # <<>>
    /\ sk < Len(SubBatchOf(batch.images, Len(sub_dirs)))
    /\ LET m == Len(sub_dirs)
           image == SubBatchOf(batch.images, m)[sk + 1]
       IN  IF image \notin batch_dir
           THEN /\ sk' = sk + 1
                /\ UNCHANGED << pc, sub_dirs, copy_missed >>
           ELSE \E outcome \in CopyOutcomes :
                  CASE outcome = "ok" ->
                         /\ sub_dirs' = [sub_dirs EXCEPT ![m] = Append(@, image)]
                         /\ sk' = sk + 1
                         /\ UNCHANGED << pc, copy_missed >>
                    [] outcome = "FileNotFoundError" ->
                         /\ copy_missed' = copy_missed \cup {image}
                         /\ sk' = sk + 1
                         /\ UNCHANGED << pc, sub_dirs >>
                    [] OTHER ->
                         /\ pc' = "aborted"
                         /\ UNCHANGED << sub_dirs, sk, copy_missed >>
    /\ UNCHANGED << drv, runs, batch, ws, worker, batch_dir, saves, xlsx, dateVars >>

\* Mutant of EndBatch: process_batch returns while the sub-batch loop is
\* still under way.
EndBatchBeforeCopies ==
    /\ pc = "subbatch"
    /\ bi' = bi + BATCH_SIZE
    /\ pc' = "dispatch"
    /\ UNCHANGED << listing, images, metadata, gi, images_by_year, year_keys, yi,
                    runs, batch, ws, worker, batch_dir, saves, xlsx, sub, dateVars >>

\* Line 200 and the return to the loop of line 221.
EndBatch ==
    /\ pc = "subbatch"
    /\ CurrentSubBatchDone
    /\ Len(sub_dirs) * SUB_BATCH_SIZE >= Len(batch.images)
    /\ bi' = bi + BATCH_SIZE
    /\ pc' = "dispatch"
    /\ UNCHANGED << listing, images, metadata, gi, images_by_year, year_keys, yi,
                    runs, batch, ws, worker, batch_dir, saves, xlsx, sub, dateVars >>

Next ==
    \/ ListImages
    \/ CreateMetadata
    \/ GroupImage
    \/ GroupDone
    \/ StartBatch
    \/ NextYear
    \/ Finish
    \/ \E idx \in DOMAIN worker : WorkerStart(idx)
    \/ \E idx \in DOMAIN worker : WorkerWrite(idx)
    \/ SaveManifest
    \/ MakeSubDir
    \/ CopyImage
    \/ EndBatch

Spec == Init /\ [][Next]_vars

(***************************************************************************)
(* The run under fair scheduling.  The main thread is never blocked on     *)
(* anything but the futures (the join at the end of the with block, lines  *)
(* 172-180), so it goes on whenever it can; a future submitted to the pool *)
(* (line 173) is run by a pool thread, and a transform that has started    *)
(* goes on to its end: every dispatched worker finishes.                   *)
(***************************************************************************)
MainThread ==
    \/ ListImages
    \/ CreateMetadata
    \/ GroupImage
    \/ GroupDone
    \/ StartBatch
    \/ NextYear
    \/ Finish
    \/ SaveManifest
    \/ MakeSubDir
    \/ CopyImage
    \/ EndBatch

\* The future submitted for index idx (lines 172-173), while it exists.
WorkerThread(idx) ==
    /\ idx \in DOMAIN worker
    /\ (WorkerStart(idx) \/ WorkerWrite(idx))

\* The corpora of the fair runs: up to MaxImagesLive images.
InitLive ==
    /\ pc = "start"
    /\ listing \in {1..n : n \in 0..MaxImagesLive}
    /\ Idle
    /\ record = EmptyRecord /\ resolved = <<>>

SpecLive ==
    /\ InitLive
    /\ [][Next]_vars
    /\ WF_vars(MainThread)
    /\ \A idx \in 0..(BATCH_SIZE - 1) : WF_vars(WorkerThread(idx))

(***************************************************************************)
(* Date resolution alone: extract_date applied to one sample record.       *)
(***************************************************************************)
InitDate ==
    /\ pc = "date"
    /\ listing = {}
    /\ Idle
    /\ record \in SampleRecords
    /\ resolved = <<>>

Resolve ==
    /\ pc = "date"
    /\ resolved = <<>>
    /\ resolved' = <<extract_date(record)>>
    /\ UNCHANGED << pc, drv, runs, batch, ws, worker, batch_dir, saves, xlsx,
                    sub, record >>

NextDate == Resolve

SpecDate == InitDate /\ [][NextDate]_vars

(***************************************************************************)
(* Properties.                                                             *)
(***************************************************************************)
Ceil(a, b) == (a + b - 1) \div b

Range(f) == {f[x] : x \in DOMAIN f}

\* The sheets of the current batch: the worksheet and, once saved, the file.
Sheets == {ws} \cup Range(xlsx)

\* What the manifest is to hold in column col of the row of index idx.
ExpectedCell(col, idx) ==
    LET image == batch.images[idx + 1]
    IN  CASE col = 1 -> IntCell(idx + 1)
          [] col = 4 -> DateCell(extract_date(MetaGet(image)))
          [] col = 6 -> StrCell
          [] OTHER -> NameCell(image)

\* C1: in every interleaving of the workers, every populated cell of a data
\* row r >= 11 of the manifest (in memory or saved) holds the data of the
\* item at index r - 11 of the batch: sequence number r - 10, that item's
\* identifier, that item's resolved date; never another item's data.
C1_RowHoldsItemAtIndex ==
    \A sheet \in Sheets :
        \A c \in DOMAIN sheet :
            c[1] >= FIRST_DATA_ROW =>
                /\ c[1] - FIRST_DATA_ROW < Len(batch.images)
                /\ c[2] \in 1..NumColumns
                /\ sheet[c] = ExpectedCell(c[2], c[1] - FIRST_DATA_ROW)

\* C1 witness: the worker of index 1 has returned and filled row 12 while
\* the worker of index 0 has not started: completion out of order.
C1_Witness ==
    /\ Len(batch.images) >= 2
    /\ worker[0].st = "pending"
    /\ worker[1].st = "true"
    /\ \A col \in 1..NumColumns : <<FIRST_DATA_ROW + 1, col>> \in DOMAIN ws

\* C2: the manifest is saved at most once per process_batch call and exactly
\* once by the time the call has passed the worker phase; when it is saved
\* every worker has returned or raised, and the worksheet never changes
\* after the save (the saved file equals the worksheet).
C2_SavedOnceAfterAllWorkers ==
    /\ saves <= 1
    /\ (saves = 0) = (xlsx = <<>>)
    /\ (runs # <<>> /\ pc # "workers") => saves = 1
    /\ pc = "workers" => saves = 0
    /\ saves = 1 =>
          /\ \A idx \in DOMAIN worker : worker[idx].st \in {"true", "false", "raised"}
          /\ xlsx = <<ws>>

\* C2 witness: a saved manifest of a batch in which one worker returned
\* True, one returned False and one raised.
C2_Witness ==
    /\ saves = 1
    /\ \E i, j, k \in DOMAIN worker :
          /\ worker[i].st = "true"
          /\ worker[j].st = "false"
          /\ worker[k].st = "raised"

\* The row of index idx is complete in sheet: its six cells hold the item.
RowComplete(sheet, idx) ==
    \A col \in 1..NumColumns :
        /\ <<idx + FIRST_DATA_ROW, col>> \in DOMAIN sheet
        /\ sheet[<<idx + FIRST_DATA_ROW, col>>] = ExpectedCell(col, idx)

\* The row of index idx is in sheet exactly as in the template.
RowAsTemplate(sheet, idx) ==
    \A c \in DOMAIN sheet \cup DOMAIN Template :
        c[1] = idx + FIRST_DATA_ROW =>
            /\ c \in DOMAIN sheet
            /\ c \in DOMAIN Template
            /\ sheet[c] = Template[c]

\* C3: whichever items of a batch fail (return False or raise), the batch is
\* not aborted before its manifest is saved, the save becomes possible once
\* all workers are done, every item that did
\* not fail is resized and has its complete row in the saved manifest, and
\* the sub-batch step runs after the save.
C3_FailuresContained ==
    /\ runs # <<>> => (pc = "workers" \/ saves = 1)
    /\ (pc = "workers" /\ \A idx \in DOMAIN worker :
                             worker[idx].st \in {"true", "false", "raised"})
          => ENABLED SaveManifest
    /\ saves = 1 =>
          \A idx \in DOMAIN worker :
              \/ worker[idx].st \in {"false", "raised"}
              \/ /\ worker[idx].st = "true"
                 /\ batch.images[idx + 1] \in batch_dir
                 /\ RowComplete(xlsx[1], idx)
    /\ pc = "subbatch" => ENABLED (MakeSubDir \/ CopyImage \/ EndBatch)

\* C3 witness: the first item raised and the second returned False, yet the
\* third has its row in the saved manifest and its file in a sub-batch.
C3_Witness ==
    /\ saves = 1
    /\ Len(batch.images) = 3
    /\ worker[0].st = "raised"
    /\ worker[1].st = "false"
    /\ worker[2].st = "true"
    /\ Len(sub_dirs) = 2
    /\ sub_dirs[2] = <<batch.images[3]>>

\* C4: no per-item error aborts a batch or the run (the run never ends with
\* an exception out of process_images).
C4_NoItemErrorAborts == pc # "aborted"

\* C5: an item whose transform failed (returned False or raised) has no cell
\* of its row idx + 11 written: in the worksheet and in the saved manifest
\* that row is exactly as in the template.
C5_FailedItemRowUntouched ==
    \A idx \in DOMAIN worker :
        worker[idx].st \in {"false", "raised"} =>
            \A sheet \in Sheets : RowAsTemplate(sheet, idx)

\* C5 witness: a saved manifest of a batch whose middle item failed while
\* the items before and after it have rows.
C5_Witness ==
    /\ xlsx # <<>>
    /\ Len(batch.images) = 3
    /\ worker[0].st = "true"
    /\ worker[1].st \in {"false", "raised"}
    /\ worker[2].st = "true"

\* The positions of image in the year groups: <<year, position>>.
PlacesOf(image) ==
    UNION { { <<y, p>> : p \in { q \in DOMAIN images_by_year[y] :
                                    images_by_year[y][q] = image } } :
            y \in DOMAIN images_by_year }

\* C6: the year groups partition the sorted image list: each image grouped
\* so far is at exactly one place of exactly one group, the group of the
\* year of its resolved date; a group holds only listed images, in the
\* order of the sorted list; after the grouping loop every image is grouped.
C6_YearGroupsPartition ==
    /\ \A p, q \in 1..Len(images) : p < q => images[p] < images[q]
    /\ pc \notin {"start", "date"} => Range(images) = listing
    /\ gi <= Len(images)
    /\ \A k \in 1..Len(images) :
          IF k <= gi
          THEN /\ Cardinality(PlacesOf(images[k])) = 1
               /\ \A yp \in PlacesOf(images[k]) :
                     yp[1] = YearOf(extract_date(MetaGet(images[k])))
          ELSE PlacesOf(images[k]) = {}
    /\ \A y \in DOMAIN images_by_year :
          LET group == images_by_year[y]
          IN  /\ group # <<>>
              /\ \A p \in 1..Len(group) : group[p] \in Range(images)
              /\ \A p, q \in 1..Len(group) : p < q => group[p] < group[q]
    /\ Range(year_keys) = DOMAIN images_by_year
    /\ Len(year_keys) = Cardinality(DOMAIN images_by_year)
    /\ pc \in {"dispatch", "workers", "subbatch", "done"} => gi = Len(images)

\* C6 witness: the grouping is complete, with two year groups of two images
\* each that interleave in the sorted list.
C6_Witness ==
    /\ pc = "dispatch"
    /\ Len(images) = 4
    /\ Cardinality(DOMAIN images_by_year) = 2
    /\ \E y \in DOMAIN images_by_year : images_by_year[y] = <<images[1], images[3]>>

\* The process_batch calls made for year y, in call order.
RunsOf(y) ==
    LET OfYear(r) == r.year = y
    IN  SelectSeq(runs, OfYear)

RECURSIVE Flatten(_)
Flatten(lists) ==
    IF lists = <<>> THEN <<>> ELSE Head(lists) \o Flatten(Tail(lists))

\* Elements lo..hi of list (positions counted from 1), without SubSeq.
Slice(list, lo, hi) == [p \in 1..(Min(hi, Len(list)) - lo + 1) |-> list[lo + p - 1]]

\* C7: for a year group of size K the process_batch calls made so far are
\* the first windows of the group: call n has number n and the items
\* (n-1)*B+1 .. min(n*B, K) of the group, so it has B items unless it is the
\* last (which is non-empty); there are never more than ceil(K/B) calls, and
\* when the run is done there are exactly ceil(K/B) and their items, joined
\* in number order, are the year group.
C7_BatchesAreWindows ==
    /\ \A k \in 1..Len(runs) : runs[k].year \in DOMAIN images_by_year
    /\ \A y \in DOMAIN images_by_year :
          LET group == images_by_year[y]
              K == Len(group)
              rs == RunsOf(y)
          IN  /\ Len(rs) <= Ceil(K, BATCH_SIZE)
              /\ \A n \in 1..Len(rs) :
                    /\ rs[n].number = n
                    /\ rs[n].images = Slice(group, (n - 1) * BATCH_SIZE + 1, n * BATCH_SIZE)
                    /\ rs[n].images # <<>>
                    /\ n < Ceil(K, BATCH_SIZE) => Len(rs[n].images) = BATCH_SIZE
              /\ pc = "done" =>
                    /\ Len(rs) = Ceil(K, BATCH_SIZE)
                    /\ Flatten([n \in 1..Len(rs) |-> rs[n].images]) = group

\* C7 witness: the run is done and a year group larger than BATCH_SIZE was
\* cut into a full batch 1 and a shorter batch 2.
C7_Witness ==
    /\ pc = "done"
    /\ Len(runs) >= 2
    /\ runs[1].year = runs[2].year
    /\ runs[1].number = 1 /\ Len(runs[1].images) = BATCH_SIZE
    /\ runs[2].number = 2 /\ Len(runs[2].images) < BATCH_SIZE

\* process_batch has returned (the batch variables are those of the call).
BatchReturned == runs # <<>> /\ pc \in {"dispatch", "done"}

\* The transform of image succeeded (process_image returned True).
Succeeded(image) ==
    \E idx \in DOMAIN worker :
        batch.images[idx + 1] = image /\ worker[idx].st = "true"

\* The items at batch indices (m-1)*S .. m*S-1, by position.
SubWindow(m) ==
    Slice(batch.images, (m - 1) * SUB_BATCH_SIZE + 1, m * SUB_BATCH_SIZE)

\* The first n elements of list.
Prefix(list, n) == [p \in 1..Min(n, Len(list)) |-> list[p]]

\* C8 as stated: when process_batch has returned there are ceil(N/S)
\* sub-batches and sub-batch m holds exactly the items of its window whose
\* resize succeeded, in batch order.
C8_Original ==
    BatchReturned =>
        /\ Len(sub_dirs) = Ceil(Len(batch.images), SUB_BATCH_SIZE)
        /\ \A m \in 1..Len(sub_dirs) :
              sub_dirs[m] = SelectSeq(SubWindow(m), Succeeded)

\* C8 amended: sub-batches are created in number order, never more than
\* ceil(N/S), and exactly ceil(N/S) when process_batch has returned;
\* sub-batch m holds, in batch order, exactly the items of its window handled
\* so far whose resize succeeded and whose copy did not raise
\* FileNotFoundError; an item whose transform failed is in no sub-batch.
C8_SubBatchContents ==
    LET Copied(image) == Succeeded(image) /\ image \notin copy_missed
        N == Len(batch.images)
    IN  /\ Len(sub_dirs) <= Ceil(N, SUB_BATCH_SIZE)
        /\ BatchReturned => Len(sub_dirs) = Ceil(N, SUB_BATCH_SIZE)
        /\ sub_dirs # <<>> => sk <= Len(SubWindow(Len(sub_dirs)))
        /\ \A m \in 1..Len(sub_dirs) :
              sub_dirs[m] =
                  SelectSeq(IF m < Len(sub_dirs) \/ BatchReturned
                            THEN SubWindow(m) ELSE Prefix(SubWindow(m), sk),
                            Copied)
        /\ \A idx \in DOMAIN worker :
              worker[idx].st \in {"false", "raised"} =>
                  \A m \in 1..Len(sub_dirs) :
                      batch.images[idx + 1] \notin Range(sub_dirs[m])

\* C8 witness: process_batch has returned with two sub-batches; the first
\* holds one item only, because the other item of its window failed, and
\* the copy of the third item raised FileNotFoundError.
C8_Witness ==
    /\ BatchReturned
    /\ Len(batch.images) = 3
    /\ worker[0].st = "false"
    /\ sub_dirs = << <<batch.images[2]>>, <<>> >>
    /\ copy_missed = {batch.images[3]}

\* C9 as stated: the sub-batches depend on the item order alone.  The run in
\* which every transform and copy succeeds gives each sub-batch its whole
\* window, so every run of process_batch on the list would have to.
C9_Original ==
    BatchReturned =>
        sub_dirs = [m \in 1..Ceil(Len(batch.images), SUB_BATCH_SIZE) |-> SubWindow(m)]

\* C9 amended: the numbering depends on the item order alone: in every
\* interleaving and whichever items fail, an item is only ever copied into
\* sub-batch (idx div S) + 1 of its batch index idx, in batch order, and a
\* returned process_batch has created the sub-batches 1..ceil(N/S); which of
\* its window's items a sub-batch holds depends on the transforms and copies
\* that succeeded.
C9_NumberingByOrderOnly ==
    /\ \A m \in 1..Len(sub_dirs) :
          /\ \A p \in 1..Len(sub_dirs[m]) :
                \E idx \in DOMAIN worker :
                    /\ batch.images[idx + 1] = sub_dirs[m][p]
                    /\ (idx \div SUB_BATCH_SIZE) + 1 = m
          /\ \A p, q \in 1..Len(sub_dirs[m]) : p < q => sub_dirs[m][p] < sub_dirs[m][q]
    /\ BatchReturned => Len(sub_dirs) = Ceil(Len(batch.images), SUB_BATCH_SIZE)

\* C9 witness: the first item of the batch failed, and the third item is
\* still in sub-batch 2, the second alone in sub-batch 1.
C9_Witness ==
    /\ BatchReturned
    /\ Len(batch.images) = 3
    /\ worker[0].st \in {"false", "raised"}
    /\ sub_dirs = << <<batch.images[2]>>, <<batch.images[3]>> >>

\* The tags of a record whose value some format parses.
ParseableTags(m) == {t \in Tags : TryFormats(SplitDot(m[t]), 1) # <<>>}

DateOfTag(m, t) == TryFormats(SplitDot(m[t]), 1)[1]

\* The tags whose parsed date is the latest instant of the record.
LatestTags(m) ==
    { t \in ParseableTags(m) :
        \A u \in ParseableTags(m) :
            Instant(DateOfTag(m, u)) <= Instant(DateOfTag(m, t)) }

\* C10: for a record with at least one parseable tag value, extract_date
\* returns the month/year of the latest parsed date, whichever tag holds it.
C10_LatestDateWins ==
    (resolved # <<>> /\ ParseableTags(record) # {}) =>
        \A t \in LatestTags(record) :
            resolved[1] = Strftime(DateOfTag(record, t))

\* C11: for a record in which no candidate tag holds a parseable date (the
\* empty record included), extract_date returns exactly DEFAULT_DATE.
C11_DefaultWhenNoParseable ==
    (resolved # <<>> /\ ParseableTags(record) = {}) =>
        resolved[1] = DEFAULT_DATE

\* C12: extract_date never raises, whatever value each candidate tag holds:
\* it returns a bucket for every record.
C12_NeverRaises ==
    resolved # <<>> => resolved[1] # RAISE

\* The images that have gone through the grouping loop of lines 211-217.
Grouped == {images[k] : k \in 1..gi}

\* The images whose metadata document was unreadable or absent: no entry in
\* the dict create_metadata_hdf5 returned.
WithoutRecord == {image \in Range(images) : image \notin DOMAIN metadata}

\* C13: an image without a readable metadata document is grouped under the
\* year of DEFAULT_DATE and under no other year, and once its worker has
\* returned True its row idx + 11 holds DEFAULT_DATE in the date column.
C13_MissingMetadataUsesDefault ==
    pc \notin {"start", "metadata", "date"} =>
        /\ \A image \in WithoutRecord \cap Grouped :
              \A y \in DOMAIN images_by_year :
                  (image \in Range(images_by_year[y])) <=> (y = YearOf(DEFAULT_DATE))
        /\ \A idx \in DOMAIN worker :
              (batch.images[idx + 1] \in WithoutRecord /\ worker[idx].st = "true") =>
                  /\ batch.year = YearOf(DEFAULT_DATE)
                  /\ \A sheet \in Sheets :
                        /\ <<idx + FIRST_DATA_ROW, 4>> \in DOMAIN sheet
                        /\ sheet[<<idx + FIRST_DATA_ROW, 4>>] = DateCell(DEFAULT_DATE)

\* An image without a metadata document, in a corpus that also has a dated
\* image of another year, has its row written and saved.
C13_Witness ==
    /\ pc = "subbatch"
    /\ Len(year_keys) = 2
    /\ \E idx \in DOMAIN worker :
          /\ batch.images[idx + 1] \in WithoutRecord
          /\ worker[idx].st = "true"
          /\ xlsx[1][<<idx + FIRST_DATA_ROW, 4>>] = DateCell(DEFAULT_DATE)

\* The (year, batch number) pairs process_batch has been called with.
PairOf(b) == <<b.year, b.number>>

\* Every part of the current process_batch call is over: all futures done,
\* the manifest saved once, every sub-batch directory made and filled.
BatchWorkOver ==
    /\ \A idx \in DOMAIN worker : worker[idx].st \in {"true", "false", "raised"}
    /\ saves = 1
    /\ Len(sub_dirs) = Ceil(Len(batch.images), SUB_BATCH_SIZE)
    /\ sk = Len(batch.images) - (Len(sub_dirs) - 1) * SUB_BATCH_SIZE

\* C14: process_batch is called at most once for a (year, batch number)
\* pair, on completion exactly once for every batch of every year, and a
\* call is made only when every worker, the save and the sub-batch copies of
\* the call before it are over.
C14_OneBatchAtATime ==
    /\ [](\A a, b \in DOMAIN runs : PairOf(runs[a]) = PairOf(runs[b]) => a = b)
    /\ [](pc = "done" =>
            \A y \in DOMAIN images_by_year :
                {runs[k].number : k \in {j \in DOMAIN runs : runs[j].year = y}}
                    = 1..Ceil(Len(images_by_year[y]), BATCH_SIZE))
    /\ [][(runs' # runs /\ runs # <<>>) => BatchWorkOver]_vars

\* A worker of the second batch of a year is at work, the first batch of
\* that year being over.
C14_Witness ==
    /\ Len(runs) = 2
    /\ runs[1].year = runs[2].year
    /\ runs[2].number = 2
    /\ \E idx \in DOMAIN worker : worker[idx].st = "resized"

\* The (call, position) pairs at which process_image was submitted for image.
DispatchesOf(image) ==
    UNION { {<<k, p>> : p \in {q \in DOMAIN runs[k].images : runs[k].images[q] = image}}
            : k \in DOMAIN runs }

\* C15: no retries.  An image is submitted to the pool at most once in a
\* run, exactly once when the run completes; a future is pending only from
\* the submit of a new process_batch call, and a future that returned False
\* or raised stays as it is until then.
C15_NoRetries ==
    /\ [](\A image \in listing : Cardinality(DispatchesOf(image)) <= 1)
    /\ [](pc = "done" => \A image \in listing : Cardinality(DispatchesOf(image)) = 1)
    /\ [][runs' = runs =>
            \A idx \in DOMAIN worker :
                /\ idx \in DOMAIN worker'
                /\ worker[idx].st # "pending" => worker'[idx].st # "pending"
                /\ worker[idx].st \in {"false", "raised"} => worker'[idx] = worker[idx]]_vars

\* The run has completed over two batches and an image of the last batch
\* failed: it was submitted once.
C15_Witness ==
    /\ pc = "done"
    /\ Len(runs) = 2
    /\ \E idx \in DOMAIN worker :
          /\ worker[idx].st = "false"
          /\ Cardinality(DispatchesOf(batch.images[idx + 1])) = 1

\* Every future of the batch has returned or raised.
AllTransformsOver ==
    \A idx \in DOMAIN worker : worker[idx].st \in {"true", "false", "raised"}

\* A step of the sub-batch loop of lines 185-198: a directory made, or the
\* existence check of an image and what follows it (skip, copy, logged miss
\* or the copy error that ends the run).
SubBatchStep ==
    /\ runs' = runs
    /\ \/ sub_dirs' # sub_dirs
       \/ sk' # sk
       \/ copy_missed' # copy_missed
       \/ (pc = "subbatch" /\ pc' = "aborted")

\* C16: a sub-batch directory is made, and the resized file of an image is
\* looked for and copied, only when every worker of the batch is over.
C16_SubBatchesAfterAllTransforms ==
    /\ []((sub_dirs # <<>> \/ sk > 0 \/ copy_missed # {}) => AllTransformsOver)
    /\ [][SubBatchStep => AllTransformsOver]_vars

\* A resized file has been copied into the first sub-batch of a batch in
\* which another worker raised.
C16_Witness ==
    /\ sub_dirs # <<>>
    /\ sub_dirs[1] # <<>>
    /\ \E idx \in DOMAIN worker : worker[idx].st = "raised"

\* The cells the worker of index idx has written so far, at row idx + 11.
WrittenBy(idx) ==
    {<<idx + FIRST_DATA_ROW, col>> : col \in 1..worker[idx].cells}

\* C17: the workers of a batch write disjoint rows.  The data cells of the
\* worksheet are those each worker wrote at its own row idx + 11, the cells
\* of two workers never meet, and no write of a worker lands on a cell that
\* was written before.
C17_WorkersWriteDisjointRows ==
    /\ [](pc # "date" =>
            /\ DOMAIN ws \ {HeaderCell} = UNION {WrittenBy(idx) : idx \in DOMAIN worker}
            /\ \A i, j \in DOMAIN worker :
                  i # j => WrittenBy(i) \cap WrittenBy(j) = {})
    /\ [][runs' = runs =>
            \A c \in DOMAIN ws' :
                (c \notin DOMAIN ws \/ ws'[c] # ws[c]) => c \notin DOMAIN ws]_vars

\* Three workers of one batch are in the middle of their rows at once.
C17_Witness ==
    /\ Len(batch.images) = 3
    /\ worker[0].cells = 2 /\ worker[1].cells = 4 /\ worker[2].cells = 3
    /\ \A idx \in DOMAIN worker : worker[idx].st = "resized"

\* The date cells (column 4) of a sheet.
DateCells(sheet) == {c \in DOMAIN sheet : c # HeaderCell /\ c[2] = 4}

\* C19: the metadata dict is not modified once create_metadata_hdf5 has
\* returned it, and the date a worker resolves falls in the year the image
\* was grouped under: the year of the date of every manifest row, in the
\* worksheet and in the saved file, is the year of the batch.
C19_RowYearIsBatchYear ==
    /\ [][pc \notin {"start", "metadata"} => metadata' = metadata]_vars
    /\ [](pc # "date" =>
            /\ \A idx \in DOMAIN worker :
                  worker[idx].st \in {"resized", "true"} =>
                      YearOf(worker[idx].date) = batch.year
            /\ \A sheet \in Sheets :
                  \A c \in DateCells(sheet) :
                      /\ sheet[c].type = "date"
                      /\ YearOf(sheet[c].date) = batch.year)

\* The saved manifest of a batch of 2023 has a row dated 2023, in a run
\* that also has images of another year.
C19_Witness ==
    /\ pc = "subbatch"
    /\ Len(year_keys) = 2
    /\ batch.year = 2023
    /\ <<FIRST_DATA_ROW, 4>> \in DOMAIN xlsx[1]
    /\ YearOf(xlsx[1][<<FIRST_DATA_ROW, 4>>].date) = 2023

\* A future of the current batch has not returned or raised yet.
SomeWorkerRunning ==
    \E idx \in DOMAIN worker : worker[idx].st \in {"pending", "resized"}

\* The process_batch call has ended: it returned to the loop of line 221 or
\* was left by an exception of shutil.copy.
BatchCallEnded == pc \in {"dispatch", "done", "aborted"}

\* C18: nothing but the futures holds process_batch up, and nothing ends
\* the wait for them.  When every dispatched worker finishes, a batch that
\* was started gets its manifest saved and the call ends; as long as a
\* worker has not finished, the main thread is in the join: the manifest is
\* not saved, no sub-batch is made and no other batch is started.
C18_BlocksOnlyOnWorkers ==
    /\ (pc = "workers") ~> BatchCallEnded
    /\ []((runs # <<>> /\ BatchCallEnded) => (saves = 1 /\ xlsx # <<>>))
    /\ [](SomeWorkerRunning =>
            pc = "workers" /\ saves = 0 /\ xlsx = <<>> /\ sub_dirs = <<>>)
    /\ [][SomeWorkerRunning => (saves' = 0 /\ xlsx' = <<>> /\ runs' = runs)]_vars

\* One worker of a batch is over and the other has not finished writing its
\* row: the main thread is in the join and the manifest is not saved.
C18_Witness ==
    /\ Len(batch.images) = 2
    /\ worker[0].st = "false"
    /\ worker[1].st = "resized"
    /\ worker[1].cells = 3
    /\ pc = "workers"
    /\ saves = 0
====
